---- MODULE Spec2Model ----
(***************************************************************************)
(* Model of diagnostics/stratonovich_diagonal.py: the __main__ block, the   *)
(* sample-path comparator inspect_sample and the strong-order estimator     *)
(* inspect_strong_order.  The script is single-threaded; every statement    *)
(* (or small group of statements) is one action, ordered by pc.  Library    *)
(* calls may raise, which ends the process (pc = "aborted").                *)
(***************************************************************************)
EXTENDS Integers, Sequences, FiniteSets, TLC

\* ---------------------------------------------------------------- bounds
\* Number of distinct Brownian-path realizations (entropy values) a freshly
\* constructed BrownianInterval may get.
MaxEntropy == 2
\* Number of distinct states the process-wide generator may be in before it
\* is seeded.
MaxUnseeded == 2
\* Number of times the script is invoked (the second invocation is the re-run).
MaxRuns == 2

\* ------------------------------------------------------ program constants
SampleBatchSize == 32
SampleD == 1
SampleSteps == 100
OrderBatchSize == 4096
OrderD == 10
NumDts == 8
SeedValue == 0

\* Step sizes are exact fractions <<numerator, denominator>>.
\* dt = 1e-1 of inspect_sample.
SampleDt == <<1, 10>>

\* dts = tuple(2 ** -i for i in range(1, 9))
dts == [i \in 1..NumDts |-> <<1, 2 ^ i>>]

\* os.path.join('.', 'diagnostics', 'plots', 'stratonovich_diagonal')
img_dir == <<".", "diagnostics", "plots", "stratonovich_diagonal">>

Entropies == 1..MaxEntropy
UnseededStates == 1..MaxUnseeded

\* ---------------------------------------------------------- pure helpers
Digit == <<"0", "1", "2", "3", "4", "5", "6", "7", "8", "9">>

\* f'{i}': the decimal representation of a non-negative integer.
RECURSIVE FormatInt(_)
FormatInt(i) ==
    IF i < 10 THEN Digit[i + 1]
    ELSE FormatInt(i \div 10) \o Digit[(i % 10) + 1]

\* os.path.join(img_dir, name)
PathJoin(dir, name) == [dir |-> dir, name |-> name]

\* The device expression of the __main__ block.
SelectDevice_NoFlag(avail, flag) == IF avail THEN "cuda" ELSE "cpu"

SelectDevice(avail, flag) == IF avail /\ ~flag THEN "cuda" ELSE "cpu"

\* Tensor.squeeze(): drop every dimension of size 1.
Squeeze(shape) == SelectSeq(shape, LAMBDA n : n # 1)

\* Tensor.t(): transpose of a tensor of at most two dimensions.
Transpose(shape) ==
    IF Len(shape) = 2 THEN <<shape[2], shape[1]>> ELSE shape

\* ys.squeeze().t() applied to a solver result.
SqueezeT_NoT(y) == [y EXCEPT !.shape = Squeeze(y.shape)]

SqueezeT(y) == [y EXCEPT !.shape = Transpose(Squeeze(y.shape))]

\* Number of tuples produced by zip(...) over arrays: the shortest first
\* dimension.
RECURSIVE MinOf(_)
MinOf(S) ==
    LET x == CHOOSE x \in S : TRUE
    IN IF S = {x} THEN x
       ELSE LET m == MinOf(S \ {x}) IN IF x < m THEN x ELSE m

ZipLen(arrs) == MinOf({a.shape[1] : a \in arrs})

\* ------------------------------------- library routines outside this file
NoObj == [id |-> 0]

\* Ex2(d=d, sde_type=...): a model instance whose parameter p is drawn from
\* the process-wide generator.
Ex2(id, d, sde_type, rng) ==
    [id |-> id, d |-> d, sde_type |-> sde_type, device |-> "cpu",
     p |-> [id |-> id + 1, val |-> <<rng.seed, rng.draws, d>>]]

\* Module.to(device): moves the instance, keeps its parameter object.
To_Stay(m, dev) == m

To(m, dev) == [m EXCEPT !.device = dev]

\* BrownianInterval(t0, t1, shape, dtype, device, levy_area_approximation)
BrownianInterval(id, ts, y0, dev, entropy) ==
    [id |-> id, t0 |-> ts.t0, t1 |-> ts.t1, shape |-> y0.shape,
     dtype |-> y0.dtype, device |-> dev, entropy |-> entropy]

\* sdeint(sde, y0, ts, dt, bm, method): the trajectory at every point of ts,
\* a function of the model's parameter, the step size, the method and the
\* path realization.
sdeint(sde, y0, ts, dt, bm, method) ==
    [method |-> method, sde_type |-> sde.sde_type, p |-> sde.p.val,
     dt |-> dt, path |-> bm.entropy, device |-> y0.device,
     dtype |-> y0.dtype, at |-> 0, kind |-> "tensor",
     shape |-> <<ts.len>> \o y0.shape]

\* sde.analytical_sample(y0, ts, bm): the closed-form solution on the path.
analytical_sample(sde, y0, ts, bm) ==
    [method |-> "analytical", sde_type |-> sde.sde_type, p |-> sde.p.val,
     dt |-> <<0, 1>>, path |-> bm.entropy, device |-> y0.device,
     dtype |-> y0.dtype, at |-> 0, kind |-> "tensor",
     shape |-> <<ts.len>> \o y0.shape]

\* `_, ys = result`: unpack a two-point trajectory and keep the end value.
EndValue_First(y) == [y EXCEPT !.at = 1, !.shape = Tail(y.shape)]

EndValue(y) == [y EXCEPT !.at = 2, !.shape = Tail(y.shape)]

\* compute_mse(ys, ys_true): one scalar, held where its operands are.
compute_mse(ys, ys_true) ==
    [pred |-> ys, ref |-> ys_true, device |-> ys.device, kind |-> "tensor"]

\* to_numpy(x): the same value as a host array.
to_numpy(x) == [x EXCEPT !.kind = "ndarray"]

\* os.makedirs(d): creates d, raises when d is already there.
os_makedirs(f, d) ==
    IF d \in f.dirs THEN [raised |-> TRUE, fs |-> f]
    ELSE [raised |-> FALSE, fs |-> [f EXCEPT !.dirs = @ \cup {d}]]

\* makedirs_if_not_found(d): create d unless it is already there.
makedirs_if_not_found_Unguarded(f, d) == os_makedirs(f, d)

makedirs_if_not_found(f, d) ==
    IF d \in f.dirs THEN [raised |-> FALSE, fs |-> f] ELSE os_makedirs(f, d)

\* plt.savefig(path): writes (or overwrites) the file at path.
savefig(f, path) == [f EXCEPT !.files = @ \cup {path}]

\* stats.linregress(log(dts), log(mses) / 2): the fitted data of one method.
linregress(xs, mses) == [x |-> xs, y |-> mses, halved |-> TRUE]

\* ------------------------------------------------------------------ state
VARIABLES
    no_gpu,          \* args.no_gpu
    cuda_available,  \* torch.cuda.is_available()
    pc,              \* position of the process
    device,          \* module-level device
    default_dtype,   \* torch default dtype
    rng,             \* process-wide generator: [seed, draws]
    settings,        \* how often device, dtype and seed were set
    ts, y0, sde, sde_strat, bm,   \* locals of the running procedure
    ys,              \* solver results of the running procedure, by method
    euler_mses_, heun_mses_, midpoint_mses_,
    mse_,            \* euler_mse_, heun_mse_, midpoint_mse_ of the iteration
    it,              \* loop position (plot index or number of dts consumed)
    slopes,          \* regression results
    nextId,          \* object identities handed out so far
    fs,              \* file system: existing directories and files
    written,         \* paths passed to savefig by this process, in order
    calls,           \* solver and analytical calls of this process, in order
    created,         \* tensors, models and paths created by this process
    bmBuilt,         \* number of BrownianInterval constructions per procedure
    failedAt,        \* pc of the call that raised, "" if none
    run,             \* invocation number
    prev             \* outcome of the previous invocation

env == <<no_gpu, cuda_available>>
glob == <<device, default_dtype, rng, settings>>
locals == <<ts, y0, sde, sde_strat, bm, ys, mse_, it, slopes, nextId>>
lists == <<euler_mses_, heun_mses_, midpoint_mses_>>
hist == <<written, calls, created, bmBuilt, failedAt>>
runs == <<run, prev>>
vars == <<env, pc, glob, locals, lists, fs, hist, runs>>

Methods == {"euler", "heun", "midpoint", "analytical"}
NoYs == [m \in Methods |-> NoObj]
NoPrev == [valid |-> FALSE]

SamplePcs == {"s_tensors", "s_sde", "s_sde_strat", "s_share_p", "s_bm",
              "s_euler", "s_heun", "s_midpoint", "s_analytical",
              "s_reshape", "s_makedirs", "s_plot"}
OrderPcs == {"o_tensors", "o_sde", "o_sde_strat", "o_share_p", "o_lists",
             "o_bm", "o_loop", "o_euler", "o_heun", "o_midpoint",
             "o_analytical", "o_mse", "o_del", "o_regress", "o_plot",
             "o_makedirs", "o_savefig"}
MainPcs == {"m_device", "m_dtype", "m_seed", "m_sample"}
\* Positions whose statement calls into torch, torchsde, scipy or matplotlib.
RaisingPcs == (SamplePcs \cup OrderPcs)
              \ {"s_share_p", "s_makedirs", "o_share_p", "o_lists", "o_loop",
                 "o_del", "o_makedirs"}

\* A fresh process: nothing set, nothing created.
Fresh(u) ==
    [pc |-> "m_device", device |-> "unset", default_dtype |-> "float32",
     rng |-> [seed |-> -u, draws |-> 0],
     settings |-> [device |-> 0, dtype |-> 0, seed |-> 0],
     bmBuilt |-> [sample |-> 0, order |-> 0]]

ProcessStart(u) ==
    /\ pc = Fresh(u).pc
    /\ device = Fresh(u).device
    /\ default_dtype = Fresh(u).default_dtype
    /\ rng = Fresh(u).rng
    /\ settings = Fresh(u).settings
    /\ ts = NoObj /\ y0 = NoObj /\ sde = NoObj /\ sde_strat = NoObj
    /\ bm = NoObj
    /\ ys = NoYs
    /\ euler_mses_ = <<>> /\ heun_mses_ = <<>> /\ midpoint_mses_ = <<>>
    /\ mse_ = NoYs
    /\ it = 0
    /\ slopes = NoYs
    /\ nextId = 1
    /\ written = <<>> /\ calls = <<>> /\ created = {}
    /\ bmBuilt = Fresh(u).bmBuilt
    /\ failedAt = ""

\* Files a previous use of the plot directory may have left behind.
LeftOver == {{}, {PathJoin(img_dir, "0"), PathJoin(img_dir, "rate")}}

Init ==
    /\ no_gpu \in BOOLEAN
    /\ cuda_available \in BOOLEAN
    /\ \E u \in UnseededStates : ProcessStart(u)
    /\ \/ fs = [dirs |-> {}, files |-> {}]
       \/ \E old \in LeftOver : fs = [dirs |-> {img_dir}, files |-> old]
    /\ run = 1
    /\ prev = NoPrev

SettingsDone ==
    settings = [device |-> 1, dtype |-> 1, seed |-> 1]

Made(kind, name, proc, dev) ==
    [kind |-> kind, name |-> name, proc |-> proc, device |-> dev, device_now |-> device,
     dtype_now |-> default_dtype, settled |-> SettingsDone]

Call(proc, fn, m, b, y, k) ==
    [proc |-> proc, fn |-> fn, p |-> m.p.id, bm |-> b.id,
     bm_device |-> b.device, device |-> y.device, iter |-> k,
     ito_p |-> sde.p.id, strat_p |-> sde_strat.p.id]

\* ------------------------------------------------------------- __main__
SetDevice ==
    /\ pc = "m_device"
    /\ device' = SelectDevice(cuda_available, no_gpu)
    /\ settings' = [settings EXCEPT !.device = @ + 1]
    /\ pc' = "m_dtype"
    /\ UNCHANGED <<env, default_dtype, rng, locals, lists, fs, hist, runs>>

SetDefaultDtype ==
    /\ pc = "m_dtype"
    /\ default_dtype' = "float64"
    /\ settings' = [settings EXCEPT !.dtype = @ + 1]
    /\ pc' = "m_seed"
    /\ UNCHANGED <<env, device, rng, locals, lists, fs, hist, runs>>

\* torch.manual_seed(0)
manual_seed_Skip(g, s) == g

manual_seed(g, s) == [seed |-> s, draws |-> 0]

ManualSeed ==
    /\ pc = "m_seed"
    /\ rng' = manual_seed(rng, SeedValue)
    /\ settings' = [settings EXCEPT !.seed = @ + 1]
    /\ pc' = "m_sample"
    /\ UNCHANGED <<env, device, default_dtype, locals, lists, fs, hist, runs>>

CallInspectSample ==
    /\ pc = "m_sample"
    /\ pc' = "s_tensors"
    /\ UNCHANGED <<env, glob, locals, lists, fs, hist, runs>>
\* -------------------------------------------------------- inspect_sample
\* ts = torch.linspace(0., 5., steps=steps, device=device); y0 = torch.ones(...)
S_Tensors ==
    /\ pc = "s_tensors"
    /\ ts' = [id |-> nextId, len |-> SampleSteps, t0 |-> 0, t1 |-> 5,
              device |-> device, dtype |-> default_dtype]
    /\ y0' = [id |-> nextId + 1, shape |-> <<SampleBatchSize, SampleD>>,
              device |-> device, dtype |-> default_dtype]
    /\ nextId' = nextId + 2
    /\ created' = created \cup {Made("tensor", "ts", "sample", ts'.device),
                                Made("tensor", "y0", "sample", y0'.device)}
    /\ pc' = "s_sde"
    /\ UNCHANGED <<env, glob, sde, sde_strat, bm, ys, mse_, it, slopes,
                   lists, fs, written, calls, bmBuilt, failedAt, runs>>

\* sde = Ex2(d=d).to(device)
NewSde(proc, d, next) ==
    /\ sde' = To(Ex2(nextId, d, "ito", rng), device)
    /\ rng' = [rng EXCEPT !.draws = @ + 1]
    /\ nextId' = nextId + 2
    /\ created' = created \cup {Made("model", "sde", proc, sde'.device)}
    /\ pc' = next
    /\ UNCHANGED <<env, device, default_dtype, settings, ts, y0, sde_strat,
                   bm, ys, mse_, it, slopes, lists, fs, written, calls,
                   bmBuilt, failedAt, runs>>

\* sde_strat = Ex2(d=d, sde_type='stratonovich').to(device)
NewSdeStrat(proc, d, next) ==
    /\ sde_strat' = To(Ex2(nextId, d, "stratonovich", rng), device)
    /\ rng' = [rng EXCEPT !.draws = @ + 1]
    /\ nextId' = nextId + 2
    /\ created' = created \cup {Made("model", "sde_strat", proc, sde_strat'.device)}
    /\ pc' = next
    /\ UNCHANGED <<env, device, default_dtype, settings, ts, y0, sde,
                   bm, ys, mse_, it, slopes, lists, fs, written, calls,
                   bmBuilt, failedAt, runs>>

\* sde_strat.p = sde.p
ShareP_Skip(strat, ito) == strat

ShareP(strat, ito) == [strat EXCEPT !.p = ito.p]

AssignP(next) ==
    /\ sde_strat' = ShareP(sde_strat, sde)
    /\ pc' = next
    /\ UNCHANGED <<env, glob, ts, y0, sde, bm, ys, mse_, it, slopes, nextId,
                   lists, fs, hist, runs>>

\* bm = BrownianInterval(t0=ts[0], t1=ts[-1], shape=y0.shape, ...)
NewBm(proc, next) ==
    /\ \E e \in Entropies :
          bm' = BrownianInterval(nextId, ts, y0, device, e)
    /\ nextId' = nextId + 1
    /\ bmBuilt' = [bmBuilt EXCEPT ![proc] = @ + 1]
    /\ created' = created \cup {Made("path", "bm", proc, bm'.device)}
    /\ pc' = next
    /\ UNCHANGED <<env, glob, ts, y0, sde, sde_strat, ys, mse_, it, slopes,
                   lists, fs, written, calls, failedAt, runs>>

\* A result kept whole (ys = ...) or unpacked to its end value (_, ys = ...).
Take(y, end) == IF end THEN EndValue(y) ELSE y

\* The path object handed to a solver call.
BmArg_Fresh(b) == [b EXCEPT !.id = nextId]

BmArg(b) == b

\* ys_<method> = sdeint(<model>, y0=y0, ts=ts, dt=dt, bm=bm, method=<method>)
Solve(proc, method, model, dt, end, next) ==
    /\ ys' = [ys EXCEPT
                ![method] = Take(sdeint(model, y0, ts, dt, BmArg(bm), method),
                                 end)]
    /\ calls' = Append(calls, Call(proc, method, model, BmArg(bm), y0, it))
    /\ created' = created \cup {Made("tensor", method, proc, ys'[method].device)}
    /\ pc' = next
    /\ UNCHANGED <<env, glob, ts, y0, sde, sde_strat, bm, mse_, it, slopes,
                   nextId, lists, fs, written, bmBuilt, failedAt, runs>>

\* ys_analytical = sde.analytical_sample(y0=y0, ts=ts, bm=bm)
Analytical(proc, end, next) ==
    /\ ys' = [ys EXCEPT
                !.analytical = Take(analytical_sample(sde, y0, ts, BmArg(bm)),
                                   end)]
    /\ calls' = Append(calls, Call(proc, "analytical", sde, BmArg(bm), y0, it))
    /\ created' = created \cup {Made("tensor", "analytical", proc, ys'.analytical.device)}
    /\ pc' = next
    /\ UNCHANGED <<env, glob, ts, y0, sde, sde_strat, bm, mse_, it, slopes,
                   nextId, lists, fs, written, bmBuilt, failedAt, runs>>

S_Sde == pc = "s_sde" /\ NewSde("sample", SampleD, "s_sde_strat")

S_SdeStrat == pc = "s_sde_strat" /\ NewSdeStrat("sample", SampleD, "s_share_p")

S_ShareP == pc = "s_share_p" /\ AssignP("s_bm")

S_Bm == pc = "s_bm" /\ NewBm("sample", "s_euler")

S_Euler == pc = "s_euler" /\ Solve("sample", "euler", sde, SampleDt, FALSE, "s_heun")

S_Heun ==
    pc = "s_heun" /\ Solve("sample", "heun", sde_strat, SampleDt, FALSE, "s_midpoint")

S_Midpoint ==
    pc = "s_midpoint"
    /\ Solve("sample", "midpoint", sde_strat, SampleDt, FALSE, "s_analytical")

S_Analytical == pc = "s_analytical" /\ Analytical("sample", FALSE, "s_reshape")

\* ys_x = ys_x.squeeze().t() for the four results, then to_numpy(...)
S_Reshape ==
    /\ pc = "s_reshape"
    /\ ys' = [m \in Methods |-> to_numpy(SqueezeT(ys[m]))]
    /\ pc' = "s_makedirs"
    /\ UNCHANGED <<env, glob, ts, y0, sde, sde_strat, bm, mse_, it, slopes,
                   nextId, lists, fs, hist, runs>>

\* img_dir = os.path.join(...); makedirs_if_not_found(img_dir)
MakeImgDir(next) ==
    LET r == makedirs_if_not_found(fs, img_dir) IN
    /\ fs' = r.fs
    /\ pc' = IF r.raised THEN "aborted" ELSE next
    /\ failedAt' = IF r.raised THEN pc ELSE failedAt
    /\ UNCHANGED <<env, glob, locals, lists, written, calls, created,
                   bmBuilt, runs>>

S_Makedirs == pc = "s_makedirs" /\ MakeImgDir("s_plot")

\* plt.savefig(os.path.join(img_dir, name)); the directory must exist.
SaveFigure(name, next) ==
    /\ img_dir \in fs.dirs
    /\ fs' = savefig(fs, PathJoin(img_dir, name))
    /\ written' = Append(written, PathJoin(img_dir, name))
    /\ pc' = next

\* Index of the row plotted by the it-th pass of the enumerate loop.
PlotIndex_Stuck(n) == 0

PlotIndex(n) == n

\* for i, rows in enumerate(zip(ys_euler_, ...)): figure, plot x 4, legend,
\* savefig(f'{i}'), close; the procedure returns when the rows run out.
S_Plot ==
    /\ pc = "s_plot"
    /\ IF it < ZipLen({ys[m] : m \in Methods})
          THEN /\ SaveFigure(FormatInt(PlotIndex(it)), "s_plot")
               /\ it' = it + 1
               /\ UNCHANGED <<ts, y0, sde, sde_strat, bm, ys>>
          ELSE /\ pc' = "o_tensors"
               /\ it' = 0
               /\ ts' = NoObj /\ y0' = NoObj /\ sde' = NoObj
               /\ sde_strat' = NoObj /\ bm' = NoObj /\ ys' = NoYs
               /\ UNCHANGED <<fs, written>>
    /\ UNCHANGED <<env, glob, mse_, slopes, nextId, lists, calls, created,
                   bmBuilt, failedAt, runs>>
\* -------------------------------------------------- inspect_strong_order
\* ts = torch.tensor([0., 5.], device=device); dts = ...; y0 = torch.ones(...)
O_Tensors ==
    /\ pc = "o_tensors"
    /\ ts' = [id |-> nextId, len |-> 2, t0 |-> 0, t1 |-> 5,
              device |-> device, dtype |-> default_dtype]
    /\ y0' = [id |-> nextId + 1, shape |-> <<OrderBatchSize, OrderD>>,
              device |-> device, dtype |-> default_dtype]
    /\ nextId' = nextId + 2
    /\ created' = created \cup {Made("tensor", "ts", "order", ts'.device),
                                Made("tensor", "y0", "order", y0'.device)}
    /\ pc' = "o_sde"
    /\ UNCHANGED <<env, glob, sde, sde_strat, bm, ys, mse_, it, slopes,
                   lists, fs, written, calls, bmBuilt, failedAt, runs>>

O_Sde == pc = "o_sde" /\ NewSde("order", OrderD, "o_sde_strat")

O_SdeStrat == pc = "o_sde_strat" /\ NewSdeStrat("order", OrderD, "o_share_p")

O_ShareP == pc = "o_share_p" /\ AssignP("o_lists")

\* euler_mses_ = []; heun_mses_ = []; midpoint_mses_ = []
O_Lists ==
    /\ pc = "o_lists"
    /\ euler_mses_' = <<>> /\ heun_mses_' = <<>> /\ midpoint_mses_' = <<>>
    /\ pc' = "o_bm"
    /\ UNCHANGED <<env, glob, locals, fs, hist, runs>>

O_Bm == pc = "o_bm" /\ NewBm("order", "o_loop")

\* for dt in tqdm.tqdm(dts): take the next step size, or leave the loop.
O_Loop ==
    /\ pc = "o_loop"
    /\ IF it < Len(dts)
          THEN it' = it + 1 /\ pc' = "o_euler"
          ELSE it' = it /\ pc' = "o_del"
    /\ UNCHANGED <<env, glob, ts, y0, sde, sde_strat, bm, ys, mse_, slopes,
                   nextId, lists, fs, hist, runs>>

O_Euler ==
    pc = "o_euler" /\ Solve("order", "euler", sde, dts[it], TRUE, "o_heun")

O_Heun ==
    pc = "o_heun"
    /\ Solve("order", "heun", sde_strat, dts[it], TRUE, "o_midpoint")

O_Midpoint ==
    pc = "o_midpoint"
    /\ Solve("order", "midpoint", sde_strat, dts[it], TRUE, "o_analytical")

O_Analytical == pc = "o_analytical" /\ Analytical("order", TRUE, "o_mse")

\* list.append(x)
Record_Front(list, x) == <<x>> \o list

Record(list, x) == Append(list, x)

\* x_mse = compute_mse(ys_x, ys_analytical); x_mse_ = to_numpy(x_mse);
\* x_mses_.append(x_mse_), for the three methods.
O_Mse ==
    /\ pc = "o_mse"
    /\ mse_' = [m \in Methods |->
                  IF m = "analytical" THEN NoObj
                  ELSE to_numpy(compute_mse(ys[m], ys.analytical))]
    /\ euler_mses_' = Record(euler_mses_, mse_'.euler)
    /\ heun_mses_' = Record(heun_mses_, mse_'.heun)
    /\ midpoint_mses_' = Record(midpoint_mses_, mse_'.midpoint)
    /\ created' = created \cup
                    {Made("tensor", "mse", "order", mse_'.euler.device)}
    /\ pc' = "o_loop"
    /\ UNCHANGED <<env, glob, ts, y0, sde, sde_strat, bm, ys, it, slopes,
                   nextId, fs, written, calls, bmBuilt, failedAt, runs>>

\* del euler_mse_, heun_mse_, midpoint_mse_
O_Del ==
    /\ pc = "o_del"
    /\ mse_' = NoYs
    /\ pc' = "o_regress"
    /\ UNCHANGED <<env, glob, ts, y0, sde, sde_strat, bm, ys, it, slopes,
                   nextId, lists, fs, hist, runs>>

\* x_slope, ... = stats.linregress(log(dts), log(x_mses_) / 2)
O_Regress ==
    /\ pc = "o_regress"
    /\ slopes' = [m \in Methods |->
                    CASE m = "euler" -> linregress(dts, euler_mses_)
                      [] m = "heun" -> linregress(dts, heun_mses_)
                      [] m = "midpoint" -> linregress(dts, midpoint_mses_)
                      [] OTHER -> NoObj]
    /\ pc' = "o_plot"
    /\ UNCHANGED <<env, glob, ts, y0, sde, sde_strat, bm, ys, mse_, it,
                   nextId, lists, fs, hist, runs>>

\* plt.figure(); plt.plot(...) x 3; xscale; yscale; legend
O_Plot ==
    /\ pc = "o_plot"
    /\ pc' = "o_makedirs"
    /\ UNCHANGED <<env, glob, locals, lists, fs, hist, runs>>

O_Makedirs == pc = "o_makedirs" /\ MakeImgDir("o_savefig")

\* plt.savefig(os.path.join(img_dir, 'rate')); plt.close()
O_Savefig ==
    /\ pc = "o_savefig"
    /\ SaveFigure("rate", "done")
    /\ UNCHANGED <<env, glob, locals, lists, calls, created, bmBuilt,
                   failedAt, runs>>

\* --------------------------------------------------------------- failures
\* Where an exception raised at position at leaves the process: nothing
\* catches it, so the interpreter exits.
Unwind_Swallow(at) ==
    CASE at = "s_euler" -> "s_heun"
      [] at = "o_euler" -> "o_heun"
      [] OTHER -> "aborted"

Unwind(at) == "aborted"

\* A library call raises.
Raise ==
    /\ pc \in RaisingPcs
    /\ failedAt = ""
    /\ failedAt' = pc
    /\ pc' = Unwind(pc)
    /\ UNCHANGED <<env, glob, locals, lists, fs, written, calls, created,
                   bmBuilt, runs>>

\* ------------------------------------------------------------ invocations
\* The script is started again after a complete run: a new process with the
\* same command line on the same machine; only the file system persists.
Rerun ==
    /\ pc = "done"
    /\ run < MaxRuns
    /\ run' = run + 1
    /\ prev' = [valid |-> TRUE, euler |-> euler_mses_, heun |-> heun_mses_,
                midpoint |-> midpoint_mses_, path |-> bm.entropy,
                seed |-> rng.seed, files |-> fs.files]
    /\ \E u \in UnseededStates :
          /\ pc' = Fresh(u).pc
          /\ device' = Fresh(u).device
          /\ default_dtype' = Fresh(u).default_dtype
          /\ rng' = Fresh(u).rng
          /\ settings' = Fresh(u).settings
          /\ bmBuilt' = Fresh(u).bmBuilt
    /\ ts' = NoObj /\ y0' = NoObj /\ sde' = NoObj /\ sde_strat' = NoObj
    /\ bm' = NoObj
    /\ ys' = NoYs
    /\ euler_mses_' = <<>> /\ heun_mses_' = <<>> /\ midpoint_mses_' = <<>>
    /\ mse_' = NoYs
    /\ it' = 0
    /\ slopes' = NoYs
    /\ nextId' = 1
    /\ written' = <<>> /\ calls' = <<>> /\ created' = {}
    /\ failedAt' = ""
    /\ UNCHANGED <<env, fs>>

Next ==
    \/ SetDevice \/ SetDefaultDtype \/ ManualSeed \/ CallInspectSample
    \/ S_Tensors \/ S_Sde \/ S_SdeStrat \/ S_ShareP \/ S_Bm
    \/ S_Euler \/ S_Heun \/ S_Midpoint \/ S_Analytical
    \/ S_Reshape \/ S_Makedirs \/ S_Plot
    \/ O_Tensors \/ O_Sde \/ O_SdeStrat \/ O_ShareP \/ O_Lists \/ O_Bm
    \/ O_Loop \/ O_Euler \/ O_Heun \/ O_Midpoint \/ O_Analytical \/ O_Mse
    \/ O_Del \/ O_Regress \/ O_Plot \/ O_Makedirs \/ O_Savefig
    \/ Raise
    \/ Rerun

Spec == Init /\ [][Next]_vars
\* ============================================================ properties
\* Position of the process, or of the call that ended it.
Pos == IF pc = "aborted" THEN failedAt ELSE pc

InIteration == {"o_euler", "o_heun", "o_midpoint", "o_analytical", "o_mse"}
AfterLoop == {"o_del", "o_regress", "o_plot", "o_makedirs", "o_savefig",
              "done"}

\* Iterations of the step-size loop that ran to their end.
Completed == IF Pos \in InIteration THEN it - 1 ELSE it

IsMseOf(x, method, i) ==
    /\ x.kind = "ndarray"
    /\ x.pred.method = method /\ x.pred.dt = <<1, 2 ^ i>>
    /\ x.ref.method = "analytical"

\* C1: after the step-size loop each of the three result lists holds one MSE
\* per step size (8 for dts = 2^-1 .. 2^-8) and entry i is the MSE of the
\* iteration that used dts[i]; during the loop, after k iterations, all three
\* lists have length k.
C1_OneMsePerStepSize ==
    /\ Pos \in AfterLoop =>
          /\ Len(euler_mses_) = 8
          /\ Len(heun_mses_) = 8
          /\ Len(midpoint_mses_) = 8
    /\ Pos \in InIteration \cup {"o_loop"} \cup AfterLoop =>
          /\ Len(euler_mses_) = Completed
          /\ Len(heun_mses_) = Completed
          /\ Len(midpoint_mses_) = Completed
          /\ \A i \in 1..Completed :
                /\ IsMseOf(euler_mses_[i], "euler", i)
                /\ IsMseOf(heun_mses_[i], "heun", i)
                /\ IsMseOf(midpoint_mses_[i], "midpoint", i)

C1_Witness ==
    /\ pc = "done"
    /\ Len(euler_mses_) = 8
    /\ midpoint_mses_[8].pred.dt = <<1, 256>>
    /\ heun_mses_[1].pred.dt = <<1, 2>>

ProcOf(at) ==
    IF at \in SamplePcs THEN "sample"
    ELSE IF at \in OrderPcs \cup {"done"} THEN "order" ELSE "main"

\* C2: within one procedure the Brownian path object is constructed exactly
\* once, before the first solver call, and every euler, heun, midpoint and
\* analytical_sample call of that procedure (every loop iteration included)
\* receives that same object and the same device.
C2_OnePathPerProcedure ==
    /\ \A q \in {"sample", "order"} : bmBuilt[q] <= 1
    /\ \A i \in 1..Len(calls) :
          /\ bmBuilt[calls[i].proc] = 1
          /\ calls[i].bm # 0
          /\ calls[i].device = device
          /\ calls[i].bm_device = device
          /\ calls[i].proc = ProcOf(Pos) => calls[i].bm = bm.id
          /\ \A j \in 1..Len(calls) :
                calls[i].proc = calls[j].proc =>
                    /\ calls[i].bm = calls[j].bm
                    /\ calls[i].device = calls[j].device
                    /\ calls[i].bm_device = calls[j].bm_device
    /\ Pos \in OrderPcs \cup {"done"} => bmBuilt.sample = 1
    /\ Pos = "done" => bmBuilt.order = 1

C2_Witness ==
    /\ pc = "done"
    /\ Len(calls) = 36
    /\ calls[4].bm # calls[5].bm
    /\ calls[5].bm = calls[36].bm

\* C3: with the seed the script sets and the same random-path realization, a
\* second run of the script yields the same three MSE sequences as the first.
C3_RerunSameMses ==
    (run > 1 /\ prev.valid /\ Pos \in AfterLoop /\ bm.entropy = prev.path) =>
        /\ euler_mses_ = prev.euler
        /\ heun_mses_ = prev.heun
        /\ midpoint_mses_ = prev.midpoint

C3_Witness ==
    /\ run = 2 /\ pc = "done" /\ bm.entropy = prev.path
    /\ Len(prev.euler) = 8
    /\ heun_mses_ = prev.heun

\* C4: the device is 'cuda' exactly when an accelerator is available and
\* --no-gpu was not given, and 'cpu' in every other case; with --no-gpu it
\* is 'cpu' whether or not an accelerator is available.
C4_DeviceChoice ==
    settings.device > 0 =>
        /\ (device = "cuda") <=> (cuda_available /\ ~no_gpu)
        /\ (device = "cpu") <=> ~(cuda_available /\ ~no_gpu)
        /\ no_gpu => device = "cpu"

C4_Witness ==
    /\ settings.device = 1 /\ no_gpu /\ cuda_available /\ device = "cpu"
    /\ pc = "m_dtype"

IndexNames ==
    {"0", "1", "2", "3", "4", "5", "6", "7", "8", "9", "10", "11", "12",
     "13", "14", "15", "16", "17", "18", "19", "20", "21", "22", "23", "24",
     "25", "26", "27", "28", "29", "30", "31"}

WritesOf(name) == {i \in 1..Len(written) : written[i].name = name}

\* C5: a complete run writes exactly batch_size (32) sample-path files, one
\* per trajectory index 0..31 with each index used once, plus exactly one
\* file named 'rate'; all go to the same fixed directory and no index file
\* is written twice.
C5_PlotFiles ==
    /\ \A i \in 1..Len(written) :
          /\ written[i].dir = img_dir
          /\ written[i].name \in IndexNames \cup {"rate"}
          /\ Cardinality(WritesOf(written[i].name)) = 1
    /\ pc = "done" =>
          /\ Len(written) = 33
          /\ \A n \in IndexNames : Cardinality(WritesOf(n)) = 1
          /\ Cardinality(WritesOf("rate")) = 1
          /\ written[33].name = "rate"
          /\ \A i \in 1..Len(written) : written[i] \in fs.files

C5_Witness ==
    /\ pc = "done"
    /\ written[1].name = "0"
    /\ written[32].name = "31"
    /\ written[33].name = "rate"

\* A step taken from a makedirs_if_not_found call succeeds and keeps what is
\* already in the file system.
\* C6: creating the plot directory is idempotent: makedirs_if_not_found
\* succeeds whether or not the directory exists, so the second call of a run
\* and any call of a later run do not fail and leave the directory and its
\* files unchanged.
MakedirsStep ==
    pc \in {"s_makedirs", "o_makedirs"} =>
        /\ pc' # "aborted"
        /\ failedAt' = failedAt
        /\ img_dir \in fs'.dirs
        /\ fs'.files = fs.files
        /\ img_dir \in fs.dirs => fs' = fs

C6_MakedirsIdempotent == [][MakedirsStep]_vars

C6_Witness ==
    /\ run = 2
    /\ pc = "o_savefig"
    /\ Cardinality(fs.files) = 33
    /\ fs.files = prev.files

IntegrationPcs == {"s_euler", "s_heun", "s_midpoint", "s_analytical"}

AbortedState ==
    /\ failedAt # "" => pc = "aborted"
    /\ failedAt \in IntegrationPcs =>
          /\ written = <<>>
          /\ \A i \in 1..Len(calls) : calls[i].proc = "sample"
          /\ \A o \in created : o.proc = "sample"
    /\ failedAt \in InIteration => WritesOf("rate") = {}

\* C7: a failure raised by a solver, analytical-sample, regression or
\* plotting call aborts the script and no later step runs; a failure in an
\* integration call of inspect_sample means no sample-path file is written
\* and inspect_strong_order never starts, and a failure in an iteration of
\* the step-size loop means no 'rate' file is written.
C7_FailureAborts ==
    /\ []AbortedState
    /\ [][pc = "aborted" => vars' = vars]_vars

C7_Witness ==
    /\ pc = "aborted"
    /\ failedAt = "o_midpoint"
    /\ it = 3
    /\ Len(written) = 32

SettledState ==
    /\ settings.device <= 1 /\ settings.dtype <= 1 /\ settings.seed <= 1
    /\ pc \notin {"m_device", "m_dtype", "m_seed"} =>
          /\ SettingsDone
          /\ device \in {"cuda", "cpu"}
          /\ default_dtype = "float64"
          /\ rng.seed = 0
    /\ \A o \in created :
          /\ o.settled
          /\ o.device = device
          /\ o.device_now = device
          /\ o.dtype_now = "float64"
    /\ Pos \in OrderPcs \cup {"done"} =>
          /\ Len(written) >= 32
          /\ \A n \in IndexNames : WritesOf(n) # {}

ProcedureKeepsSettings ==
    pc \in SamplePcs \cup OrderPcs =>
        /\ UNCHANGED <<device, default_dtype, settings>>
        /\ rng'.seed = rng.seed

\* C9: device, float64 default precision and seed are each set exactly once
\* at program start, before inspect_sample begins, and neither procedure
\* changes them; inspect_sample has written all its files before
\* inspect_strong_order does anything; every tensor, model and Brownian path
\* is created after these settings and on the selected device.
C9_SettingsOnceAtStart ==
    /\ []SettledState
    /\ [][ProcedureKeepsSettings]_vars

C9_Witness ==
    /\ pc = "done"
    /\ device = "cuda"
    /\ Cardinality(created) = 19
    /\ SettingsDone

\* C10: in both procedures the Stratonovich instance is given the Ito
\* instance's parameter p before the first integration call, and the two
\* instances hold the same parameter at every solver call, so the euler,
\* heun, midpoint and analytical results all use one parameter value.
C10_SharedParameter ==
    /\ \A i \in 1..Len(calls) :
          /\ calls[i].ito_p = calls[i].strat_p
          /\ calls[i].p = calls[i].ito_p
          /\ calls[i].p # 0
    /\ Pos \in (SamplePcs \cup OrderPcs)
               \ {"s_tensors", "s_sde", "s_sde_strat", "s_share_p",
                  "o_tensors", "o_sde", "o_sde_strat", "o_share_p"} =>
          sde_strat.p = sde.p
    /\ \A m \in Methods, n \in Methods :
          (ys[m] # NoObj /\ ys[n] # NoObj) => ys[m].p = ys[n].p

C10_Witness ==
    /\ pc = "o_mse"
    /\ it = 8
    /\ sde_strat.p = sde.p
    /\ sde_strat.id # sde.id
    /\ ys.heun.p = ys.euler.p
====
